---- MODULE Spec2Model ----
(***************************************************************************)
(* Model of Problemas/fibonacci/fibonacci_efficiency.py.                   *)
(*                                                                         *)
(* The three Fibonacci strategies (naive recursion, iteration, fast        *)
(* doubling), each returning (value, steps), are modelled twice from the   *)
(* same line-level operators: as operators that compute a call's result in *)
(* one evaluation, and as a machine that runs one call frame by frame on   *)
(* an explicit call stack.                                                 *)
(*                                                                         *)
(*   Spec, FairSpec  one call of a strategy, frame by frame                *)
(*   PureSpec        the three strategies applied to one n                 *)
(*   HarnessSpec     one call of run_and_time                              *)
(*   MainSpec        main, up to its two result lists                      *)
(*   DigitsSpec      the lambda behind the digits column                   *)
(*                                                                         *)
(* Each specification leaves the variables of the others at rest.          *)
(***************************************************************************)
EXTENDS Integers, Sequences, FiniteSets, TLC

(***************************************************************************)
(* Bounds of the model.                                                    *)
(***************************************************************************)
\* Largest argument of a frame-by-frame call.
MaxCallN == 18
\* Most negative argument of a frame-by-frame call is -MaxNeg.
MaxNeg == 3
\* The interpreter's recursion limit (sys.getrecursionlimit(), 1000 unless
\* changed), scaled down: a call that would make the stack deeper than this
\* raises RecursionError.
RecursionLimit == 16

(***************************************************************************)
(* Python's integer operators used by the source.                          *)
(***************************************************************************)
\* A shift that does not shift.
ShiftRight1_NoShift(k) == k
\* k >> 1 : arithmetic shift, floor(k / 2) also for negative k.
ShiftRight1(k) == k \div 2
\* x << 1
ShiftLeft1(x) == x * 2
\* k & 1 : the low bit, 1 for every odd k (negative ones too).
LowBit(k) == k % 2

(***************************************************************************)
(* The strategies, line by line.                                           *)
(***************************************************************************)
\* line 21: the base-case test shared by the recursive and the iterative strategy.
IsBase(n) == n < 2
\* line 22 / line 29: return n, 1
BaseResult(n) == <<n, 1>>
\* The return of line 25 without its own step.
RecCombine_NoOwnStep(r1, r2) == <<r1[1] + r2[1], r1[2] + r2[2]>>
\* line 25: return v1 + v2, s1 + s2 + 1
RecCombine(r1, r2) == <<r1[1] + r2[1], r1[2] + r2[2] + 1>>

\* lines 20-25
RECURSIVE fib_recursive_with_counts(_)
fib_recursive_with_counts(n) ==
    IF IsBase(n) THEN BaseResult(n)
    ELSE LET r1 == fib_recursive_with_counts(n - 1)
             r2 == fib_recursive_with_counts(n - 2)
         IN  RecCombine(r1, r2)

\* The counter started at 0.
IterInit_StepsFromZero == [a |-> 0, b |-> 1, steps |-> 0, i |-> 2]
\* lines 30-31: a, b = 0, 1; steps = 1; the loop variable starts at range(2, n+1)'s
\* first element.
IterInit == [a |-> 0, b |-> 1, steps |-> 1, i |-> 2]
\* line 32: the loop has another element to take.
IterMore(l, n) == l.i <= n
\* lines 33-34: a, b = b, a + b; steps += 1 (and the range advances).
IterAdvance(l) == [a |-> l.b, b |-> l.a + l.b, steps |-> l.steps + 1, i |-> l.i + 1]
\* line 35: return b, steps
IterResult(l) == <<l.b, l.steps>>

\* lines 32-35
RECURSIVE IterLoop(_, _)
IterLoop(l, n) == IF IterMore(l, n) THEN IterLoop(IterAdvance(l), n) ELSE IterResult(l)

\* lines 27-35
fib_iterative_with_counts(n) ==
    IF IsBase(n) THEN BaseResult(n) ELSE IterLoop(IterInit, n)

\* line 40: return 0, 1, 1
FdBaseResult == <<0, 1, 1>>
\* Lines 42-47 with F(2k) computed without the doubling of F(k+1).
FdCombine_NoDoubling(k, r) ==
    LET f_k  == r[1]
        f_k1 == r[2]
        s    == r[3]
        c    == f_k * (f_k1 - f_k)
        d    == f_k * f_k + f_k1 * f_k1
    IN  IF (k % 2) # 0 THEN <<d, c + d, s + 1>> ELSE <<c, d, s + 1>>
\* Lines 42-47 with the two branches of line 44 exchanged.
FdCombine_BranchesSwapped(k, r) ==
    LET f_k  == r[1]
        f_k1 == r[2]
        s    == r[3]
        c    == f_k * ((f_k1 * 2) - f_k)
        d    == f_k * f_k + f_k1 * f_k1
    IN  IF (k % 2) # 0 THEN <<c, d, s + 1>> ELSE <<d, c + d, s + 1>>
\* Lines 42-47 with the step counted in the odd branch only.
FdCombine_EvenUncounted(k, r) ==
    LET f_k  == r[1]
        f_k1 == r[2]
        s    == r[3]
        c    == f_k * ((f_k1 * 2) - f_k)
        d    == f_k * f_k + f_k1 * f_k1
    IN  IF (k % 2) # 0 THEN <<d, c + d, s + 1>> ELSE <<c, d, s>>
\* lines 42-47, from r = fd(k >> 1)
FdCombine(k, r) ==
    LET f_k  == r[1]
        f_k1 == r[2]
        s    == r[3]
        c    == f_k * (ShiftLeft1(f_k1) - f_k)
        d    == f_k * f_k + f_k1 * f_k1
    IN  IF LowBit(k) # 0 THEN <<d, c + d, s + 1>> ELSE <<c, d, s + 1>>

\* lines 38-47.  For k < 0 the recursion never reaches k = 0 (-1 >> 1 = -1): the
\* operator is applied to k >= 0 only, and the machine below runs the other case.
RECURSIVE fd(_)
fd(k) == IF k = 0 THEN FdBaseResult ELSE FdCombine(k, fd(ShiftRight1(k)))

\* lines 48-49: f_n, _, steps = fd(n); return f_n, steps
FastResult(r) == <<r[1], r[3]>>
\* lines 37-49
fib_fast_doubling_with_counts(n) == FastResult(fd(n))

\* The third component of fd alone (lines 40, 45, 47): it does not read the first
\* two, so it is computed here without them for arguments whose Fibonacci
\* numbers are beyond TLC's 32-bit integers.
RECURSIVE fd_steps(_)
fd_steps(k) == IF k = 0 THEN FdBaseResult[3] ELSE fd_steps(ShiftRight1(k)) + 1

Strategies == {"fib_recursive_with_counts", "fib_iterative_with_counts",
               "fib_fast_doubling_with_counts"}

\* fn(n) for a strategy given by name
Apply(fn, n) ==
    CASE fn = "fib_recursive_with_counts"     -> fib_recursive_with_counts(n)
      [] fn = "fib_iterative_with_counts"     -> fib_iterative_with_counts(n)
      [] fn = "fib_fast_doubling_with_counts" -> fib_fast_doubling_with_counts(n)

(***************************************************************************)
(* One call, frame by frame.                                               *)
(***************************************************************************)
VARIABLES
    cfn,     \* the strategy called
    cn,      \* its argument
    stack,   \* the call stack, innermost frame last
    ret,     \* the latest return: the function, its argument, the value returned
    cstat    \* "running", "returned" (the call returned ret.val) or "error"

\* The strategies applied to one argument (specification PureSpec).
VARIABLES
    pn,        \* the argument
    ppc,       \* which strategy is applied next
    presults   \* strategy -> the pair it returned, <<>> before it is applied

\* run_and_time and main (specifications HarnessSpec and MainSpec).
VARIABLES
    hfn, n_list, name,   \* run_and_time's parameters fn, n_list, name
    out,                 \* its list out
    hidx,                \* the position in n_list of the loop's next element
    hn,                  \* its loop variable n
    t0,                  \* its local t0
    hres,                \* its locals val, steps
    hpc,                 \* where it stands: "idle", "L53", "L55", "L56", "returned"
    clock,               \* what time.perf_counter() reads
    durations,           \* how long a call of fn may take, in ticks of clock
    calls,               \* every invocation fn(n) so far, as <<fn, n>>
    mpc,                 \* the line main stands at
    res_small,           \* main's list res_small
    res_large            \* main's list res_large

\* The digits column of line 90 (specification DigitsSpec).
VARIABLES
    dx,        \* a value x of the column 'value'
    dpc,       \* "start", then "done" once the lambda is applied
    ddigits    \* what the lambda returned for x

callVars == <<cfn, cn, stack, ret, cstat>>
pureVars == <<pn, ppc, presults>>
runVars == <<hfn, n_list, name, out, hidx, hn, t0, hres, hpc, clock, durations, calls>>
mainVars == <<mpc, res_small, res_large>>
digitVars == <<dx, dpc, ddigits>>
nonCallVars == <<pureVars, runVars, mainVars, digitVars>>
nonPureVars == <<callVars, runVars, mainVars, digitVars>>
nonRunVars == <<callVars, pureVars, digitVars>>

\* ret before anything returned
NoReturn == [fn |-> "none", arg |-> 0, val |-> <<>>]

\* What the variables of a specification hold while another one runs.
CallIdle ==
    /\ cfn = "none"
    /\ cn = 0
    /\ stack = <<>>
    /\ ret = NoReturn
    /\ cstat = "idle"

PureIdle ==
    /\ pn = 0
    /\ ppc = "idle"
    /\ presults = <<>>

RunIdle ==
    /\ hfn = "none"
    /\ n_list = <<>>
    /\ name = "none"
    /\ out = <<>>
    /\ hidx = 1
    /\ hn = 0
    /\ t0 = 0
    /\ hres = <<>>
    /\ hpc = "idle"
    /\ clock = 0
    /\ durations = {}
    /\ calls = <<>>

MainIdle ==
    /\ mpc = "idle"
    /\ res_small = <<>>
    /\ res_large = <<>>

DigitsIdle ==
    /\ dx = <<>>
    /\ dpc = "idle"
    /\ ddigits = 0

\* The frame a call of fn(n) starts in.
EntryFrame(fn, n) ==
    CASE fn = "fib_recursive_with_counts" ->
            [fn |-> fn, pc |-> "L21", n |-> n, r1 |-> <<>>]
      [] fn = "fib_iterative_with_counts" ->
            [fn |-> fn, pc |-> "L28", n |-> n, l |-> IterInit]
      [] fn = "fib_fast_doubling_with_counts" ->
            [fn |-> fn, pc |-> "L48", n |-> n]
      [] fn = "fd" ->
            [fn |-> fn, pc |-> "L39", n |-> n]

Top == stack[Len(stack)]
Rest == SubSeq(stack, 1, Len(stack) - 1)

\* The stack with its top frame replaced by f.
ReplaceTop(f) == Rest \o <<f>>

\* A call from the top frame, which waits at f: the callee's frame is pushed, or
\* the interpreter raises RecursionError and the whole call is unwound (nothing
\* in the source catches it).
Call(f, fn, n) ==
    IF Len(stack) >= RecursionLimit
    THEN /\ stack' = <<>>
         /\ cstat' = "error"
         /\ ret' = NoReturn
    ELSE /\ stack' = Append(ReplaceTop(f), EntryFrame(fn, n))
         /\ UNCHANGED <<cstat, ret>>

\* The top frame returns v to its caller.
Return(v) ==
    /\ stack' = Rest
    /\ ret' = [fn |-> Top.fn, arg |-> Top.n, val |-> v]
    /\ cstat' = IF Len(stack) = 1 THEN "returned" ELSE cstat

Running(fn, pc) ==
    /\ cstat = "running"
    /\ stack # <<>>
    /\ Top.fn = fn
    /\ Top.pc = pc

\* lines 21-22
RecBase ==
    /\ Running("fib_recursive_with_counts", "L21")
    /\ IsBase(Top.n)
    /\ Return(BaseResult(Top.n))
    /\ UNCHANGED <<cfn, cn, nonCallVars>>

\* lines 21, 23: the first recursive call
RecCall1 ==
    /\ Running("fib_recursive_with_counts", "L21")
    /\ ~IsBase(Top.n)
    /\ Call([Top EXCEPT !.pc = "L23"], Top.fn, Top.n - 1)
    /\ UNCHANGED <<cfn, cn, nonCallVars>>

\* lines 23-24: v1, s1 are bound, then the second recursive call
RecCall2 ==
    /\ Running("fib_recursive_with_counts", "L23")
    /\ Call([Top EXCEPT !.pc = "L24", !.r1 = ret.val], Top.fn, Top.n - 2)
    /\ UNCHANGED <<cfn, cn, nonCallVars>>

\* lines 24-25: v2, s2 are bound, then the return
RecReturn ==
    /\ Running("fib_recursive_with_counts", "L24")
    /\ Return(RecCombine(Top.r1, ret.val))
    /\ UNCHANGED <<cfn, cn, nonCallVars>>

\* lines 28-29
IterBase ==
    /\ Running("fib_iterative_with_counts", "L28")
    /\ IsBase(Top.n)
    /\ Return(BaseResult(Top.n))
    /\ UNCHANGED <<cfn, cn, nonCallVars>>

\* lines 28, 30-31
IterStart ==
    /\ Running("fib_iterative_with_counts", "L28")
    /\ ~IsBase(Top.n)
    /\ stack' = ReplaceTop([Top EXCEPT !.pc = "L32", !.l = IterInit])
    /\ UNCHANGED <<cfn, cn, ret, cstat, nonCallVars>>

\* lines 32-34: one advance of the loop
IterStep ==
    /\ Running("fib_iterative_with_counts", "L32")
    /\ IterMore(Top.l, Top.n)
    /\ stack' = ReplaceTop([Top EXCEPT !.l = IterAdvance(Top.l)])
    /\ UNCHANGED <<cfn, cn, ret, cstat, nonCallVars>>

\* lines 32, 35: the range is exhausted
IterReturn ==
    /\ Running("fib_iterative_with_counts", "L32")
    /\ ~IterMore(Top.l, Top.n)
    /\ Return(IterResult(Top.l))
    /\ UNCHANGED <<cfn, cn, nonCallVars>>

\* line 48: the call fd(n)
FastCall ==
    /\ Running("fib_fast_doubling_with_counts", "L48")
    /\ Call([Top EXCEPT !.pc = "L49"], "fd", Top.n)
    /\ UNCHANGED <<cfn, cn, nonCallVars>>

\* lines 48-49
FastReturn ==
    /\ Running("fib_fast_doubling_with_counts", "L49")
    /\ Return(FastResult(ret.val))
    /\ UNCHANGED <<cfn, cn, nonCallVars>>

\* lines 39-40
FdBase ==
    /\ Running("fd", "L39")
    /\ Top.n = 0
    /\ Return(FdBaseResult)
    /\ UNCHANGED <<cfn, cn, nonCallVars>>

\* lines 39, 41: the call fd(k >> 1)
FdCall ==
    /\ Running("fd", "L39")
    /\ Top.n # 0
    /\ Call([Top EXCEPT !.pc = "L42"], "fd", ShiftRight1(Top.n))
    /\ UNCHANGED <<cfn, cn, nonCallVars>>

\* lines 41-47
FdReturn ==
    /\ Running("fd", "L42")
    /\ Return(FdCombine(Top.n, ret.val))
    /\ UNCHANGED <<cfn, cn, nonCallVars>>

CallArgs == (0 - MaxNeg) .. MaxCallN

CallInit ==
    /\ cfn \in Strategies
    /\ cn \in CallArgs
    /\ stack = <<EntryFrame(cfn, cn)>>
    /\ ret = NoReturn
    /\ cstat = "running"

CallNext ==
    \/ RecBase \/ RecCall1 \/ RecCall2 \/ RecReturn
    \/ IterBase \/ IterStart \/ IterStep \/ IterReturn
    \/ FastCall \/ FastReturn \/ FdBase \/ FdCall \/ FdReturn

vars == <<callVars, pureVars, runVars, mainVars, digitVars>>

Init == CallInit /\ PureIdle /\ RunIdle /\ MainIdle /\ DigitsIdle
Next == CallNext
Spec == Init /\ [][Next]_vars
\* The interpreter runs a call until it returns or raises.
FairSpec == Spec /\ WF_vars(Next)

(***************************************************************************)
(* The three strategies applied to one argument, in the order main applies *)
(* them for its small table (lines 63-65).                                 *)
(***************************************************************************)
\* Largest argument the strategies are applied to.
MaxN == 30

PureInit ==
    /\ pn \in 0 .. MaxN
    /\ ppc = "fib_recursive_with_counts"
    /\ presults = [f \in Strategies |-> <<>>]
    /\ CallIdle
    /\ RunIdle
    /\ MainIdle
    /\ DigitsIdle

\* presults with fn applied to pn
Applied(fn) == [presults EXCEPT ![fn] = Apply(fn, pn)]

ApplyRecursive ==
    /\ ppc = "fib_recursive_with_counts"
    /\ presults' = Applied(ppc)
    /\ ppc' = "fib_iterative_with_counts"
    /\ UNCHANGED <<pn, nonPureVars>>

ApplyIterative ==
    /\ ppc = "fib_iterative_with_counts"
    /\ presults' = Applied(ppc)
    /\ ppc' = "fib_fast_doubling_with_counts"
    /\ UNCHANGED <<pn, nonPureVars>>

ApplyFastDoubling ==
    /\ ppc = "fib_fast_doubling_with_counts"
    /\ presults' = Applied(ppc)
    /\ ppc' = "done"
    /\ UNCHANGED <<pn, nonPureVars>>

PureNext == ApplyRecursive \/ ApplyIterative \/ ApplyFastDoubling
PureSpec == PureInit /\ [][PureNext]_vars

(***************************************************************************)
(* run_and_time (lines 51-58) and main (lines 60-88).                      *)
(***************************************************************************)
\* Largest element of an n_list given to run_and_time on its own.
MaxHarnessN == 2
\* Longest such n_list.
MaxLen == 3
\* Largest n at which a strategy is evaluated; beyond it (the recursive strategy's
\* cost, and Fibonacci numbers past TLC's 32-bit integers) the result of fn(n)
\* is kept as the uninterpreted pair Symbolic(fn, n).
MaxEval == 25

\* The record with value and steps exchanged.
FibResult_ValueStepsSwapped(n, value, steps, time_ms, algo) ==
    [n |-> n, value |-> steps, steps |-> value, time_ms |-> time_ms, algo |-> algo]
\* lines 12-18, and the positional construction of line 57
FibResult(n, value, steps, time_ms, algo) ==
    [n |-> n, value |-> value, steps |-> steps, time_ms |-> time_ms, algo |-> algo]

\* fn(n) unevaluated: the strategies are pure, so the pair is a function of fn and n.
Symbolic(fn, n) == <<[of |-> fn, at |-> n, part |-> "value"],
                     [of |-> fn, at |-> n, part |-> "steps"]>>

\* line 55: fn(n)
Invoke(fn, n) == IF n <= MaxEval THEN Apply(fn, n) ELSE Symbolic(fn, n)

\* line 56: (time.perf_counter() - t0) * 1000.0, the clock read in whole seconds
ElapsedMs(start, now) == (now - start) * 1000

\* lines 53-54: the loop takes its next element, and t0 = time.perf_counter()
RunTake ==
    /\ hpc = "L53"
    /\ hidx <= Len(n_list)
    /\ hn' = n_list[hidx]
    /\ hidx' = hidx + 1
    /\ t0' = clock
    /\ hpc' = "L55"
    /\ UNCHANGED <<hfn, n_list, name, out, hres, clock, durations, calls>>
    /\ UNCHANGED <<nonRunVars, mainVars>>

\* line 55: val, steps = fn(n), during which the clock advances
RunCall ==
    /\ hpc = "L55"
    /\ hres' = Invoke(hfn, hn)
    /\ calls' = Append(calls, <<hfn, hn>>)
    /\ \E d \in durations : clock' = clock + d
    /\ hpc' = "L56"
    /\ UNCHANGED <<hfn, n_list, name, out, hidx, hn, t0, durations>>
    /\ UNCHANGED <<nonRunVars, mainVars>>

\* lines 56-57: dt, and out.append(FibResult(n, val, steps, dt, name))
RunAppend ==
    /\ hpc = "L56"
    /\ out' = Append(out, FibResult(hn, hres[1], hres[2], ElapsedMs(t0, clock), name))
    /\ hpc' = "L53"
    /\ UNCHANGED <<hfn, n_list, name, hidx, hn, t0, hres, clock, durations, calls>>
    /\ UNCHANGED <<nonRunVars, mainVars>>

\* lines 53, 58: n_list is exhausted, return out
RunReturn ==
    /\ hpc = "L53"
    /\ hidx > Len(n_list)
    /\ hpc' = "returned"
    /\ UNCHANGED <<hfn, n_list, name, out, hidx, hn, t0, hres, clock, durations, calls>>
    /\ UNCHANGED <<nonRunVars, mainVars>>

\* The sequences over S of length at most len.
SeqsUpTo(S, len) == UNION {[1 .. m -> S] : m \in 0 .. len}

\* The labels main passes as name.
Names == {"recursive", "iterative", "fast_doubling"}

\* line 52 (out = []), for any strategy, list and label
HarnessInit ==
    /\ hfn \in Strategies
    /\ n_list \in SeqsUpTo(0 .. MaxHarnessN, MaxLen)
    /\ name \in Names
    /\ out = <<>>
    /\ hidx = 1
    /\ hn = 0
    /\ t0 = 0
    /\ hres = <<>>
    /\ hpc = "L53"
    /\ clock = 0
    /\ durations = {0, 1}
    /\ calls = <<>>
    /\ CallIdle
    /\ PureIdle
    /\ MainIdle
    /\ DigitsIdle

HarnessNext == RunTake \/ RunCall \/ RunAppend \/ RunReturn
HarnessSpec == HarnessInit /\ [][HarnessNext]_vars

\* line 61
n_small == <<0, 1, 2, 3, 5, 8, 10, 15, 20, 25, 30, 35>>
\* line 85
n_large == <<10, 100, 1000, 10000, 100000, 1000000>>
\* line 63: [x for x in n_small if x <= 35]
UpTo35(list) == SelectSeq(list, LAMBDA x : x <= 35)

\* main, standing at line, calls run_and_time(fn, list, nm) (line 52: out = []).
MainInvoke(line, fn, list, nm) ==
    /\ mpc = line
    /\ hpc = "idle"
    /\ hfn' = fn
    /\ n_list' = list
    /\ name' = nm
    /\ out' = <<>>
    /\ hidx' = 1
    /\ hpc' = "L53"
    /\ UNCHANGED <<hn, t0, hres, clock, durations, calls>>
    /\ UNCHANGED <<nonRunVars, mainVars>>

\* res_small += the list returned to line, and main moves on to line next.
ExtendSmall(line, next) ==
    /\ mpc = line
    /\ hpc = "returned"
    /\ res_small' = res_small \o out
    /\ mpc' = next
    /\ hpc' = "idle"
    /\ UNCHANGED <<hfn, n_list, name, out, hidx, hn, t0, hres, clock, durations, calls>>
    /\ UNCHANGED <<nonRunVars, res_large>>

\* res_large += the list returned to line, and main moves on to line next.
ExtendLarge(line, next) ==
    /\ mpc = line
    /\ hpc = "returned"
    /\ res_large' = res_large \o out
    /\ mpc' = next
    /\ hpc' = "idle"
    /\ UNCHANGED <<hfn, n_list, name, out, hidx, hn, t0, hres, clock, durations, calls>>
    /\ UNCHANGED <<nonRunVars, res_small>>

\* line 63
MainL63Call == MainInvoke("L63", "fib_recursive_with_counts", UpTo35(n_small), "recursive")
MainL63Extend == ExtendSmall("L63", "L64")
\* line 64
MainL64Call == MainInvoke("L64", "fib_iterative_with_counts", n_small, "iterative")
MainL64Extend == ExtendSmall("L64", "L65")
\* line 65; lines 66-83 hand df_small to the csv and plotting collaborators
MainL65Call == MainInvoke("L65", "fib_fast_doubling_with_counts", n_small, "fast_doubling")
MainL65Extend == ExtendSmall("L65", "L87")
\* Line 87 with the recursive strategy run over n_large as well.
MainL87Call_Recursive == MainInvoke("L87", "fib_recursive_with_counts", n_large, "recursive")
\* line 87
MainL87Call == MainInvoke("L87", "fib_iterative_with_counts", n_large, "iterative")
MainL87Extend == ExtendLarge("L87", "L88")
\* line 88; lines 89-107 hand df_large to the csv and plotting collaborators
MainL88Call == MainInvoke("L88", "fib_fast_doubling_with_counts", n_large, "fast_doubling")
MainL88Extend == ExtendLarge("L88", "done")

\* lines 61-62, 85-86: both result lists start empty.  Every call takes one tick:
\* the times measured play no part in how the tables are put together.
MainInit ==
    /\ mpc = "L63"
    /\ res_small = <<>>
    /\ res_large = <<>>
    /\ hfn = "none"
    /\ n_list = <<>>
    /\ name = "none"
    /\ out = <<>>
    /\ hidx = 1
    /\ hn = 0
    /\ t0 = 0
    /\ hres = <<>>
    /\ hpc = "idle"
    /\ clock = 0
    /\ durations = {1}
    /\ calls = <<>>
    /\ CallIdle
    /\ PureIdle
    /\ DigitsIdle

MainNext ==
    \/ MainL63Call \/ MainL63Extend
    \/ MainL64Call \/ MainL64Extend
    \/ MainL65Call \/ MainL65Extend
    \/ MainL87Call \/ MainL87Extend
    \/ MainL88Call \/ MainL88Extend
    \/ RunTake \/ RunCall \/ RunAppend \/ RunReturn
MainSpec == MainInit /\ [][MainNext]_vars

(***************************************************************************)
(* The digits column (line 90):                                            *)
(*     lambda x: 1 if x == 0 else int(math.log10(x)) + 1                   *)
(* x is a Python integer of any size, written here as its decimal digits,  *)
(* most significant first, without leading zeros (0 is <<0>>).             *)
(*                                                                         *)
(* math.log10 converts x to a binary64 float and returns the binary64      *)
(* nearest to its logarithm.  For x of L digits the logarithm lies in      *)
(* [L-1, L), so int() of the float is L-1 unless the float is L itself,    *)
(* which is the case when x is so little below 10^L that L is the nearest  *)
(* binary64: log10(10^L - g) is about g * 0.4343 / 10^L below L, and the   *)
(* floats just below L (8 < L <= 16) are 2^-49 apart, so the result is L   *)
(* when g * 0.4343 / 10^L < 2^-50, that is g <= 2 for L = 15 and for no    *)
(* g >= 1 when L <= 14.  (CPython 3.11: int(math.log10(10**15 - 1)) = 15.) *)
(***************************************************************************)
\* Longest run of digits 10^L - g is drawn with.
MaxDigits == 16
\* Largest g it is drawn with.
MaxGap == 3
\* Largest x drawn from 0, 1, 2, ...
MaxPlain == 60

\* 10^Len(x) - x, where 100 stands for every gap of 100 or more.
GapBelowPower(x) ==
    LET L == Len(x)
    IN  IF L = 1 THEN 10 - x[1]
        ELSE IF \A i \in 1 .. L - 2 : x[i] = 9
             THEN 100 - (10 * x[L - 1] + x[L])
             ELSE 100

\* The largest g >= 0 for which math.log10(10^L - g) is the float L.  From 16
\* digits on it is at least 20 and grows with L; 20 is exact enough for the
\* values drawn here, none of which is between 20 and 100 below a power of ten.
RoundingWindow(L) == IF L <= 14 THEN 0 ELSE IF L = 15 THEN 2 ELSE 20

\* math.log10(x) is the float Len(x): the logarithm was rounded up to an integer.
Log10RoundsUp(x) == GapBelowPower(x) <= RoundingWindow(Len(x))

\* int(math.log10(x)) for x >= 1
IntLog10(x) == IF Log10RoundsUp(x) THEN Len(x) ELSE Len(x) - 1

\* x == 0
IsZero(x) == x = <<0>>

\* line 90: 1 if x == 0 else int(math.log10(x)) + 1
Digits(x) == IF IsZero(x) THEN 1 ELSE IntLog10(x) + 1

\* The decimal digits of v >= 0.
RECURSIVE Decimal(_)
Decimal(v) == IF v < 10 THEN <<v>> ELSE Append(Decimal(v \div 10), v % 10)

\* The decimal digits of 10^L - g, for L >= 1 and 0 <= g <= 9.
Pow10Minus(L, g) ==
    IF g = 0 THEN <<1>> \o [i \in 1 .. L |-> 0]
    ELSE [i \in 1 .. L |-> IF i < L THEN 9 ELSE 10 - g]

\* fib(100) = 354224848179261915075
Fib100 == <<3, 5, 4, 2, 2, 4, 8, 4, 8, 1, 7, 9, 2, 6, 1, 9, 1, 5, 0, 7, 5>>

DigitInputs ==
    {Decimal(v) : v \in 0 .. MaxPlain}
        \cup {Pow10Minus(L, g) : L \in 1 .. MaxDigits, g \in 0 .. MaxGap}
        \cup {Fib100}

DigitsInit ==
    /\ dx \in DigitInputs
    /\ dpc = "start"
    /\ ddigits = 0
    /\ CallIdle
    /\ PureIdle
    /\ RunIdle
    /\ MainIdle

\* line 90: the lambda applied to one value of the column
ApplyDigits ==
    /\ dpc = "start"
    /\ ddigits' = Digits(dx)
    /\ dpc' = "done"
    /\ UNCHANGED <<dx, callVars, pureVars, runVars, mainVars>>

DigitsNext == ApplyDigits
DigitsSpec == DigitsInit /\ [][DigitsNext]_vars

(***************************************************************************)
(* Properties.                                                             *)
(***************************************************************************)
\* fib(0) = 0, fib(1) = 1, fib(n) = fib(n-1) + fib(n-2)
Fib[k \in Nat] == IF k < 2 THEN k ELSE Fib[k - 1] + Fib[k - 2]

\* The number of binary digits of n >= 0, taken as 0 for n = 0.
BitLength(n) ==
    CHOOSE b \in 0 .. 30 : IF b = 0 THEN n = 0 ELSE 2 ^ (b - 1) <= n /\ n < 2 ^ b

\* The machine and the operators agree on every call that returns.
MachineAgreesWithOperators ==
    cstat = "returned" =>
        /\ ret.fn = cfn
        /\ ret.arg = cn
        /\ ret.val = Apply(cfn, cn)

PRec == presults["fib_recursive_with_counts"]
PIter == presults["fib_iterative_with_counts"]
PFast == presults["fib_fast_doubling_with_counts"]

\* C1: for every n in 0..30 the three strategies return the same value, and that
\* value is fib(n) of the recurrence fib(0)=0, fib(1)=1, fib(n)=fib(n-1)+fib(n-2).
C1_ValuesAgree ==
    /\ \A f \in Strategies : presults[f] # <<>> => presults[f][1] = Fib[pn]
    /\ ppc = "done" => PRec[1] = PIter[1] /\ PIter[1] = PFast[1]

C1_Witness ==
    /\ ppc = "done"
    /\ pn = 30
    /\ PRec[1] = 832040
    /\ PFast[1] = 832040

\* C3: fib_fast_doubling_with_counts(n) returns 1 step for the k = 0 base case
\* plus one per recursive level above it, 1 + the number of binary digits of n;
\* fast_doubling(0) = (0, 1), fast_doubling(1) = (1, 2), and
\* steps(2^20) < 3 * steps(2^10).
C3_FastDoublingSteps ==
    /\ PFast # <<>> =>
          /\ PFast[2] = 1 + BitLength(pn)
          /\ PFast[2] = fd_steps(pn)
          /\ pn = 0 => PFast = <<0, 1>>
          /\ pn = 1 => PFast = <<1, 2>>
    /\ fd_steps(2 ^ 20) = 1 + BitLength(2 ^ 20)
    /\ fd_steps(2 ^ 10) = 1 + BitLength(2 ^ 10)
    /\ fd_steps(2 ^ 20) < 3 * fd_steps(2 ^ 10)

C3_Witness ==
    /\ ppc = "done"
    /\ pn = 21
    /\ PFast = <<10946, 6>>

\* 1000 * x >= k * y, computed without forming either product.
ScaledGeq(x, k, y) == 1000 * (x - k * (y \div 1000)) >= k * (y % 1000)
\* 1000 * x <= k * y, likewise.
ScaledLeq(x, k, y) == 1000 * (x - k * (y \div 1000)) <= k * (y % 1000)

\* C4: the steps s(n) of fib_recursive_with_counts(n) count the nodes of the naive
\* recursion tree: s(0) = s(1) = 1, s(n) = s(n-1) + s(n-2) + 1 for n >= 2, which is
\* 2*fib(n+1) - 1; and for n >= 10 the ratio s(n+1)/s(n) is within 0.01 of 1.618.
C4_RecursiveSteps ==
    ppc = "done" =>
        LET s == PRec[2]
            sNext == fib_recursive_with_counts(pn + 1)[2]
        IN  /\ s = 2 * Fib[pn + 1] - 1
            /\ pn < 2 => s = 1
            /\ pn >= 2 => s = fib_recursive_with_counts(pn - 1)[2]
                              + fib_recursive_with_counts(pn - 2)[2] + 1
            /\ pn >= 10 => /\ ScaledGeq(sNext, 1608, s)
                           /\ ScaledLeq(sNext, 1628, s)

C4_Witness ==
    /\ ppc = "done"
    /\ pn = 30
    /\ PRec[2] = 2692537

\* C2: fib_iterative_with_counts(n), n >= 0, returns 1 step when n < 2 and n
\* steps when n >= 2 (max(1, n)): the counter starts at 1 and is incremented once
\* per loop advance.
C2_IterativeSteps ==
    /\ \A j \in 1 .. Len(stack) :
          (stack[j].fn = "fib_iterative_with_counts" /\ stack[j].pc = "L32") =>
              \* i - 2 advances of the loop so far
              stack[j].l.steps = 1 + (stack[j].l.i - 2)
    /\ (cfn = "fib_iterative_with_counts" /\ cn >= 0 /\ cstat = "returned") =>
          ret.val[2] = IF cn < 2 THEN 1 ELSE cn

C2_Witness ==
    /\ cfn = "fib_iterative_with_counts"
    /\ cn = 12
    /\ cstat = "returned"
    /\ ret.val = <<144, 12>>

\* C6: a strategy called with a negative n fails (ends in an error) rather than
\* silently returning a (value, steps) pair.
C6_NegativeFails == (cn < 0 /\ cstat # "running") => cstat = "error"

\* The fast-doubling strategy is the one that does fail on a negative n.
C6_Witness ==
    /\ cfn = "fib_fast_doubling_with_counts"
    /\ cn < 0
    /\ cstat = "error"

\* C9: every call fd(k), k >= 0, returns (F(k), F(k+1)) as its first two
\* components: (0, 1) for k = 0, and with j = k >> 1, (F(2j), F(2j+1)) for even k
\* and (F(2j+1), F(2j+2)) for odd k.
C9_FdReturnsPair ==
    (ret.fn = "fd" /\ ret.arg >= 0) =>
        LET k == ret.arg
            j == k \div 2
            pair == <<ret.val[1], ret.val[2]>>
        IN  /\ pair = <<Fib[k], Fib[k + 1]>>
            /\ k = 0 => pair = <<0, 1>>
            /\ (k > 0 /\ k % 2 = 0) => pair = <<Fib[2 * j], Fib[2 * j + 1]>>
            /\ (k > 0 /\ k % 2 = 1) => pair = <<Fib[2 * j + 1], Fib[2 * j + 2]>>

C9_Witness ==
    /\ ret.fn = "fd"
    /\ ret.arg = 13
    /\ ret.val = <<233, 377, 5>>

\* The deepest the stack gets in a call fn(n), n >= 0, that is let run.
CallDepth(fn, n) ==
    CASE fn = "fib_recursive_with_counts"     -> IF n < 2 THEN 1 ELSE n
      [] fn = "fib_iterative_with_counts"     -> 1
      [] fn = "fib_fast_doubling_with_counts" -> 2 + BitLength(n)

\* Each frame's argument against its caller's.
ArgumentsDecrease ==
    \A j \in 1 .. Len(stack) - 1 :
        /\ stack[j].fn = "fib_recursive_with_counts" =>
              /\ stack[j].n >= 2
              /\ stack[j + 1].n < stack[j].n
              /\ stack[j + 1].n >= 0
        /\ stack[j].fn = "fd" =>
              /\ stack[j].n > 0
              /\ stack[j + 1].n = stack[j].n \div 2
              /\ stack[j + 1].n < stack[j].n

\* The loop of the iterative strategy is left after exactly n - 1 advances.
LoopRunsNMinus1 ==
    /\ \A j \in 1 .. Len(stack) :
          (stack[j].fn = "fib_iterative_with_counts" /\ stack[j].pc = "L32") =>
              stack[j].l.i - 2 <= stack[j].n - 1
    /\ (cfn = "fib_iterative_with_counts" /\ cn >= 2 /\ cstat = "returned") =>
          ret.val[2] - 1 = cn - 1

\* C10 as stated: for every n >= 0 each strategy terminates and returns.
C10_ReturnsForEveryN == (cn >= 0 /\ cstat # "running") => cstat = "returned"

\* C10, amended: for every n >= 0 each strategy terminates, and it returns when its
\* call depth (n frames for the recursive strategy, 2 + the bit length of n for
\* fast doubling, 1 for the iterative one) is within the interpreter's recursion
\* limit, and ends with RecursionError otherwise; the recursive strategy's
\* arguments strictly decrease until below 2, the iterative loop runs exactly
\* n - 1 times for n >= 2, and fast doubling halves k until k = 0.
C10_TerminatesWithinLimit ==
    /\ [](cn >= 0 => ArgumentsDecrease /\ LoopRunsNMinus1)
    /\ (cn >= 0 /\ CallDepth(cfn, cn) <= RecursionLimit) ~> (cstat = "returned")
    /\ (cn >= 0 /\ CallDepth(cfn, cn) > RecursionLimit) ~> (cstat = "error")

\* A call that returned from the deepest stack the limit allows.
C10_Witness ==
    /\ cfn = "fib_recursive_with_counts"
    /\ cn = RecursionLimit
    /\ cstat = "returned"
    /\ ret.val[1] = Fib[cn]

\* out[i] is the record of the i-th element of n_list.
RecordOf(i) ==
    /\ out[i].n = n_list[i]
    /\ <<out[i].value, out[i].steps>> = Apply(hfn, n_list[i])
    /\ out[i].algo = name
    /\ out[i].time_ms >= 0

\* The invocations made for the first m elements of n_list, one each, in order.
InvokedOnce(m) ==
    /\ Len(calls) = m
    /\ \A i \in 1 .. m : calls[i] = <<hfn, n_list[i]>>

RunResult ==
    /\ Len(out) <= Len(n_list)
    /\ \A i \in 1 .. Len(out) : RecordOf(i)
    /\ hpc = "L56" => InvokedOnce(Len(out) + 1)
    /\ hpc # "L56" => InvokedOnce(Len(out))
    /\ hpc = "returned" => Len(out) = Len(n_list)

\* C5: run_and_time(fn, n_list, name) returns one FibResult per element of n_list,
\* in n_list's order: the i-th has n = n_list[i], (value, steps) = fn(n_list[i]) and
\* algo = name; fn is invoked exactly once per element and n_list is left unchanged.
C5_OneResultPerElement == [] RunResult /\ [][n_list' = n_list]_vars

C5_Witness ==
    /\ hpc = "returned"
    /\ hfn = "fib_recursive_with_counts"
    /\ name = "iterative"
    /\ n_list = <<2, 0, 2>>
    /\ Len(out) = 3
    /\ out[3].value = 1
    /\ out[3].steps = 3
    /\ out[3].algo = "iterative"
    /\ Len(calls) = 3

\* The records a block contributes: algo's label with each n of list, in order.
Block(algo, list) == [i \in 1 .. Len(list) |-> <<algo, list[i]>>]
\* The (algo, n) of each record of a table, in order.
Keys(table) == [i \in 1 .. Len(table) |-> <<table[i].algo, table[i].n>>]

SmallBlocks ==
    <<Block("recursive", n_small), Block("iterative", n_small),
      Block("fast_doubling", n_small)>>
LargeBlocks == <<Block("iterative", n_large), Block("fast_doubling", n_large)>>

\* The first m blocks of bs, concatenated.
RECURSIVE Concat(_, _)
Concat(bs, m) == IF m = 0 THEN <<>> ELSE Concat(bs, m - 1) \o bs[m]

\* C8: each table of main is the concatenation of whole per-algorithm blocks in a
\* fixed order, each listing its n in input order: the small one recursive,
\* iterative, fast_doubling over the 12 values of n_small (36 records), the large
\* one iterative, fast_doubling over the 6 values of n_large (12 records); the
\* recursive strategy is never invoked with n > 35 and is not in the large table.
C8_TablesAreBlocks ==
    /\ Len(n_small) = 12
    /\ Len(n_large) = 6
    /\ \E m \in 0 .. 3 : Keys(res_small) = Concat(SmallBlocks, m)
    /\ \E m \in 0 .. 2 : Keys(res_large) = Concat(LargeBlocks, m)
    /\ mpc \in {"L87", "L88", "done"} =>
          /\ Len(res_small) = 36
          /\ Keys(res_small) = Concat(SmallBlocks, 3)
    /\ mpc = "done" =>
          /\ Len(res_large) = 12
          /\ Keys(res_large) = Concat(LargeBlocks, 2)
    /\ \A i \in 1 .. Len(calls) :
          calls[i][1] = "fib_recursive_with_counts" => calls[i][2] <= 35
    /\ \A i \in 1 .. Len(res_large) : res_large[i].algo # "recursive"
    /\ \A i \in 1 .. Len(out) : mpc \in {"L87", "L88"} => out[i].algo # "recursive"

C8_Witness ==
    /\ mpc = "done"
    /\ Len(res_small) = 36
    /\ Len(res_large) = 12
    /\ res_small[12].algo = "recursive"
    /\ res_small[12].n = 35
    /\ res_small[13].algo = "iterative"
    /\ res_large[12].algo = "fast_doubling"
    /\ res_large[12].n = 1000000
    /\ Len(calls) = 48

\* C7: the digits column is, for every value x >= 0, the number of base-10 digits
\* of x: 1 when x = 0, otherwise floor(log10(x)) + 1 (the length of x written in
\* decimal); in particular digits(fib(100)) = 21 and digits(0) = 1.
C7_DigitsIsDecimalLength ==
    dpc = "done" =>
        /\ ddigits = Len(dx)
        /\ dx = <<0>> => ddigits = 1
        /\ dx = Fib100 => ddigits = 21

\* The two cases the claim names do hold.
C7_Witness ==
    /\ dpc = "done"
    /\ dx = Fib100
    /\ ddigits = 21

====
